---- MODULE Spec2Model ----
\* A state-machine model of src/app.py: the Streamlit script that styles one
\* video (feature 1), composes three videos side by side (feature 2) or as an
\* intro followed by a sequential reveal (feature 3), and builds a combined
\* thumbnail (feature 4).  One script rerun handles one button press; every
\* step of a handler that can raise is one action with a normal and a raising
\* outcome.  Times are counted in ticks, TicksPerSecond ticks to the second.
\*
\* app.py uses names it never binds on the path that uses them: os and
\* CompositeVideoClip in feature 2 (imported only inside feature 3's body),
\* os and Image in feature 4, apply_watermark in features 2 and 3.  The model
\* takes them as bound to what their names say; the NameError a bare run of
\* the file raises at such a statement is one case of that step's raising
\* outcome.
EXTENDS Integers, Sequences, FiniteSets, TLC

\* ---------------------------------------------------------------- bounds
MaxJobs == 2          \* script reruns per session
MaxDur == 7           \* longest track, in ticks
MaxFiles == 4         \* most files the uploader holds
MaxFrames == 2        \* frames of the feature 1 source clip
TicksPerSecond == 2   \* resolution of the time axis
NumDrops == 2         \* raindrops drawn per frame (300 in the code, scaled)
RainW == 2            \* frame width of the rain model
RainH == 2            \* frame height of the rain model

\* ------------------------------------------------------------- constants
width == 1280 \div 3
height == 720
intro_duration == 1 * TicksPerSecond
freeze_t == 1 * TicksPerSecond
faded == 40           \* set_opacity(0.4), in percent
opaque == 100         \* a clip whose opacity was never set, in percent
None == -1

Idx == 0..2
Styles == {"Hayao", "Hosoda", "Paprika", "Shinkai"}

VARIABLES
  pc,              \* position of the running handler
  feature,         \* which handler the rerun entered: "f1" .. "f4"
  jobId,           \* number of the script rerun
  started,         \* whether the rerun entered a job body
  error,           \* exception that ended the rerun, "none" if none
  failedAt,        \* pc at which it was raised
  nfiles,          \* number of files the uploader holds
  dur,             \* duration of each uploaded track, in ticks
  tmpFiles,        \* temporary files of the job that exist on disk
  openClips,       \* VideoFileClip readers of the job not yet closed
  session,         \* st.session_state output slots
  min_duration, raw_clips, styled_clips, raw_combined, styled_combined,
  raw_sequence, styled_sequence,
  add_rain, add_watermark, styled_clip, output, shown,
  idx,             \* loop index of the thumbnail job
  rain_frame,      \* input frame of the rain model
  rain_out         \* outputs of successive add_rain_effect calls on it

ctlVars == <<pc, feature, jobId, started, error, failedAt, nfiles, dur>>
resVars == <<tmpFiles, openClips>>
sbsVars == <<min_duration, raw_clips, styled_clips, raw_combined, styled_combined>>
seqVars == <<raw_sequence, styled_sequence>>
f1Vars == <<add_rain, add_watermark, styled_clip, output, shown>>
rainVars == <<rain_frame, rain_out>>
vars == <<ctlVars, resVars, session, sbsVars, seqVars, f1Vars, idx, rainVars>>

\* ------------------------------------------------------------ data model
NoData == [job |-> 0, kind |-> "none"]
NoDur == [j \in Idx |-> 0]
NoClip == [n |-> 0, style |-> "none", fl |-> <<>>]
NoComposite == [dur |-> None, size |-> <<0, 0>>, pos |-> <<>>, cells |-> <<>>]
NoSequence == [dur |-> None, segs |-> <<>>]
Durations == [Idx -> 1..MaxDur]

File(name, i) == <<name, i>>
Handle(name, i) == <<name, i>>

\* What reading a result file back yields.
FileKind(name) ==
  CASE name \in {"sbs_raw.mp4", "seq_raw.mp4"} -> "raw"
    [] name \in {"styled_temp.mp4", "seq_styled_temp.mp4"} -> "styled"
    [] name \in {"sbs_final.mp4", "seq_final.mp4"} -> "watermarked"
    [] OTHER -> "upload"

InitSession ==
  [s \in {"sbs_raw_output", "sbs_final_output", "seq_raw_output", "seq_final_output"}
     |-> NoData]

\* A clip is the track it reads, the window [from, to) of the track's own time
\* it samples (from = to for a single frozen frame), its duration on the output
\* timeline, and its placement.
VideoFileClip(j, d, st) ==
  [track |-> j, styled |-> st, dur |-> d, from |-> 0, to |-> d,
   frozen |-> FALSE, opacity |-> opaque, pos |-> <<0, 0>>]

\* moviepy 1.x Clip.subclip: the new duration is t_end - t_start, whatever the
\* source's own duration is.
subclip(c, t_start, t_end) ==
  [c EXCEPT !.dur = t_end - t_start, !.from = c.from + t_start, !.to = c.from + t_end]

\* to_ImageClip(t): one frame, read at time t, with no duration of its own.
to_ImageClip(c, t) ==
  [c EXCEPT !.frozen = TRUE, !.from = c.from + t, !.to = c.from + t, !.dur = None]

set_duration(c, d) == [c EXCEPT !.dur = d]

set_opacity(c, op) == [c EXCEPT !.opacity = op]

set_position(c, p) == [c EXCEPT !.pos = p]

MaxOf(S) == CHOOSE m \in S : \A x \in S : x <= m

\* CompositeVideoClip: all parts start at 0, so the composite lasts as long as
\* its longest part.
CompositeVideoClip(parts, size) ==
  [dur |-> MaxOf({parts[j].dur : j \in DOMAIN parts}),
   size |-> size,
   pos |-> [j \in DOMAIN parts |-> parts[j].pos],
   cells |-> parts]

RECURSIVE SumDur(_)
SumDur(s) == IF s = <<>> THEN 0 ELSE Head(s).dur + SumDur(Tail(s))

concatenate_videoclips(clips) == [dur |-> SumDur(clips), segs |-> clips]

\* --------------------------------------------------------- control flow
Idle == pc = "idle"

ResetJob ==
  /\ error' = "none"
  /\ failedAt' = "none"
  /\ tmpFiles' = {}
  /\ openClips' = {}
  /\ min_duration' = None
  /\ raw_clips' = <<>>
  /\ styled_clips' = <<>>
  /\ raw_combined' = NoComposite
  /\ styled_combined' = NoComposite
  /\ raw_sequence' = NoSequence
  /\ styled_sequence' = NoSequence
  /\ add_rain' = FALSE
  /\ add_watermark' = FALSE
  /\ styled_clip' = NoClip
  /\ output' = <<>>
  /\ shown' = FALSE
  /\ idx' = 0

\* An exception leaves the handler: a TemporaryDirectory context removes its
\* directory on the way out; nothing closes the clips; feature 1 keeps its
\* delete=False files.
RaiseWith(err, files, clips) ==
  /\ pc' = "ended"
  /\ error' = err
  /\ failedAt' = pc
  /\ tmpFiles' = IF feature = "f1" THEN tmpFiles \cup files ELSE {}
  /\ openClips' = openClips \cup clips
  /\ UNCHANGED <<feature, jobId, started, nfiles, dur, session,
                 sbsVars, seqVars, f1Vars, idx, rainVars>>

Raise(err) == RaiseWith(err, {}, {})

\* A step that only moves on, creating the files in `files`.
Step(next, files) ==
  /\ pc' = next
  /\ tmpFiles' = tmpFiles \cup files
  /\ UNCHANGED <<feature, jobId, started, error, failedAt, nfiles, dur>>

\* The guard `if uploaded and len(uploaded) == 3: if st.button(...)`: with any
\* other count the body is skipped and the rerun ends with nothing raised.
Enter(f, n, button, first, D) ==
  /\ Idle
  /\ jobId < MaxJobs
  /\ jobId' = jobId + 1
  /\ feature' = f
  /\ nfiles' = n
  /\ ResetJob
  /\ UNCHANGED <<session, rainVars>>
  /\ IF n = 3 /\ button
       THEN /\ started' = TRUE
            /\ dur' \in D
            /\ pc' = first
       ELSE /\ started' = FALSE
            /\ dur' = NoDur
            /\ pc' = "ended"

\* The rerun is over: the script's namespace is discarded, st.session_state is
\* what the next rerun starts from.
EndRerun ==
  /\ pc = "ended"
  /\ pc' = "idle"
  /\ feature' = "none"
  /\ started' = FALSE
  /\ nfiles' = 0
  /\ dur' = NoDur
  /\ ResetJob
  /\ UNCHANGED <<jobId, session, rainVars>>

\* ------------------------------------------- feature 2: side by side
Run_F2 ==
  \E n \in 0..MaxFiles, button \in BOOLEAN :
    Enter("f2", n, button, "f2_save", Durations)

F2_SaveUploads ==
  /\ pc = "f2_save"
  /\ \/ /\ Step("f2_load", {File("video.mp4", i) : i \in Idx})
        /\ UNCHANGED <<openClips, session, sbsVars, seqVars, f1Vars, idx, rainVars>>
     \/ Raise("IOError")

ShorterMut(duration, m) == m = None \/ duration > m

Shorter(duration, m) == m = None \/ duration < m

RECURSIVE MinLoop(_, _, _)
MinLoop(d, k, m) ==
  IF k > 2 THEN m
  ELSE MinLoop(d, k + 1, IF Shorter(d[k], m) THEN d[k] ELSE m)

F2_LoadClips ==
  /\ pc = "f2_load"
  /\ \/ /\ Step("f2_raw", {})
        /\ openClips' = {Handle("clip_raw", j) : j \in Idx}
        /\ min_duration' = MinLoop(dur, 0, None)
        /\ raw_clips' = [j \in Idx |-> VideoFileClip(j, dur[j], FALSE)]
        /\ styled_clips' = [j \in Idx |-> VideoFileClip(j, dur[j], TRUE)]
        /\ UNCHANGED <<session, raw_combined, styled_combined, seqVars, f1Vars, idx, rainVars>>
     \/ \E k \in Idx :  \* VideoFileClip(paths[k]) raises, clips 0..k-1 are open
          RaiseWith("DecodeError", {}, {Handle("clip_raw", j) : j \in 0..(k - 1)})

SbsCell(c, j) == set_position(c, <<j * 426, 0>>)

SbsComposite(clips, d) ==
  set_duration(CompositeVideoClip([j \in Idx |-> SbsCell(clips[j], j)], <<1280, 720>>), d)

F2_WriteRaw ==
  /\ pc = "f2_raw"
  /\ \/ /\ Step("f2_styled", {File("sbs_raw.mp4", 0)})
        /\ raw_clips' = [j \in Idx |-> subclip(raw_clips[j], 0, min_duration)]
        /\ styled_clips' = [j \in Idx |-> subclip(styled_clips[j], 0, min_duration)]
        /\ raw_combined' =
             SbsComposite([j \in Idx |-> subclip(raw_clips[j], 0, min_duration)], min_duration)
        /\ UNCHANGED <<openClips, session, min_duration, styled_combined, seqVars,
                       f1Vars, idx, rainVars>>
     \/ Raise("EncodeError")

F2_WriteStyled ==
  /\ pc = "f2_styled"
  /\ \/ /\ Step("f2_wm", {File("styled_temp.mp4", 0)})
        /\ styled_combined' = SbsComposite(styled_clips, min_duration)
        /\ UNCHANGED <<openClips, session, min_duration, raw_clips, styled_clips,
                       raw_combined, seqVars, f1Vars, idx, rainVars>>
     \/ Raise("EncodeError")

\* apply_watermark(src, dst) then the two read-backs into st.session_state,
\* shared by features 2 and 3.  The name apply_watermark is bound nowhere in
\* app.py; it is taken as the watermark stage, which writes dst or raises.
apply_watermark(at, next, dst) ==
  /\ pc = at
  /\ \/ /\ Step(next, {File(dst, 0)})
        /\ UNCHANGED <<openClips, session, sbsVars, seqVars, f1Vars, idx, rainVars>>
     \/ Raise("WatermarkError")

SaveRawToSession(at, next, slot, file) ==
  /\ pc = at
  /\ \/ /\ Step(next, {})
        /\ session' = [session EXCEPT ![slot] = [job |-> jobId, kind |-> FileKind(file)]]
        /\ UNCHANGED <<openClips, sbsVars, seqVars, f1Vars, idx, rainVars>>
     \/ Raise("IOError")

\* The last statement of the TemporaryDirectory block: the directory goes
\* when the block is left.
SaveFinalToSession(at, slot, file) ==
  /\ pc = at
  /\ \/ /\ pc' = "ended"
        /\ tmpFiles' = {}
        /\ session' = [session EXCEPT ![slot] = [job |-> jobId, kind |-> FileKind(file)]]
        /\ UNCHANGED <<feature, jobId, started, error, failedAt, nfiles, dur, openClips,
                       sbsVars, seqVars, f1Vars, idx, rainVars>>
     \/ Raise("IOError")

F2_Watermark == apply_watermark("f2_wm", "f2_read_raw", "sbs_final.mp4")

F2_SaveRaw == SaveRawToSession("f2_read_raw", "f2_read_final", "sbs_raw_output", "sbs_raw.mp4")

F2_SaveFinal == SaveFinalToSession("f2_read_final", "sbs_final_output", "sbs_final.mp4")

\* ------------------------------- feature 3: intro + sequential reveal
Run_F3 ==
  \E n \in 0..MaxFiles, button \in BOOLEAN :
    Enter("f3", n, button, "f3_save", Durations)

F3_SaveUploads ==
  /\ pc = "f3_save"
  /\ \/ /\ Step("f3_load", {File("seq.mp4", i) : i \in Idx})
        /\ UNCHANGED <<openClips, session, sbsVars, seqVars, f1Vars, idx, rainVars>>
     \/ Raise("IOError")

video_raw == [j \in Idx |-> VideoFileClip(j, dur[j], FALSE)]

video_styled == [j \in Idx |-> VideoFileClip(j, dur[j], TRUE)]

\* The six readers in the order the two list comprehensions open them.
SeqHandle(k) == IF k < 3 THEN Handle("video_raw", k) ELSE Handle("video_styled", k - 3)

F3_LoadClips ==
  /\ pc = "f3_load"
  /\ \/ /\ Step("f3_build", {})
        /\ openClips' = {SeqHandle(k) : k \in 0..5}
        /\ UNCHANGED <<session, sbsVars, seqVars, f1Vars, idx, rainVars>>
     \/ \E k \in 0..5 :
          RaiseWith("DecodeError", {}, {SeqHandle(m) : m \in 0..(k - 1)})

Intro(video) ==
  CompositeVideoClip(
    [j \in Idx |-> set_position(subclip(video[j], 0, intro_duration), <<j * width, 0>>)],
    <<1280, height>>)

IsLiveMut(i, j) == j = 0

IsLive(i, j) == j = i

Segment(video, i) ==
  LET d == video[i].dur
      part(j) ==
        IF IsLive(i, j)
          THEN video[j]
          ELSE set_opacity(set_duration(to_ImageClip(video[j], freeze_t), d), faded)
      parts == [j \in Idx |-> set_position(part(j), <<j * width, 0>>)]
  IN set_duration(CompositeVideoClip(parts, <<1280, height>>), d)

TimelineMut(video) == <<Segment(video, 0), Segment(video, 1), Segment(video, 2)>>

Timeline(video) ==
  <<Intro(video), Segment(video, 0), Segment(video, 1), Segment(video, 2)>>

\* A sample of track j outside [0, d_j): the window of a playing clip, or the
\* instant of a frozen frame.
OutOfRange(c) ==
  IF c.frozen THEN ~(0 <= c.from /\ c.from < dur[c.track])
  ELSE ~(0 <= c.from /\ c.to <= dur[c.track])

\* to_ImageClip reads its frame when it is built: past the end of a track the
\* reader either repeats its last frame with a warning or raises.
F3_BuildTimeline ==
  /\ pc = "f3_build"
  /\ \/ /\ Step("f3_raw", {})
        /\ raw_clips' = Timeline(video_raw)
        /\ styled_clips' = Timeline(video_styled)
        /\ raw_sequence' = concatenate_videoclips(Timeline(video_raw))
        /\ styled_sequence' = concatenate_videoclips(Timeline(video_styled))
        /\ UNCHANGED <<openClips, session, min_duration, raw_combined, styled_combined,
                       f1Vars, idx, rainVars>>
     \/ /\ \E j \in Idx : OutOfRange(to_ImageClip(video_raw[j], freeze_t))
        /\ Raise("DecodeError")

F3_WriteRaw ==
  /\ pc = "f3_raw"
  /\ \/ /\ Step("f3_styled", {File("seq_raw.mp4", 0)})
        /\ UNCHANGED <<openClips, session, sbsVars, seqVars, f1Vars, idx, rainVars>>
     \/ Raise("EncodeError")

F3_WriteStyled ==
  /\ pc = "f3_styled"
  /\ \/ /\ Step("f3_wm", {File("seq_styled_temp.mp4", 0)})
        /\ UNCHANGED <<openClips, session, sbsVars, seqVars, f1Vars, idx, rainVars>>
     \/ Raise("EncodeError")

F3_Watermark == apply_watermark("f3_wm", "f3_read_raw", "seq_final.mp4")

F3_SaveRaw == SaveRawToSession("f3_read_raw", "f3_read_final", "seq_raw_output", "seq_raw.mp4")

F3_SaveFinal == SaveFinalToSession("f3_read_final", "seq_final_output", "seq_final.mp4")

\* ------------------------------------ feature 1: cartoon style transfer
\* A frame is the source frame it came from and the transforms applied to it,
\* in the order they were applied.
SourceFrame(i) == [src |-> i, ops |-> <<>>]

\* get_transform_function(style)(frame), of helpers.style_transfer.
transform_func(style, frame) == [frame EXCEPT !.ops = Append(@, style)]

\* add_rain_effect(frame), as one step of a chain (its pixels are modelled
\* below, under SpecRain).
RainStep(frame) == [frame EXCEPT !.ops = Append(@, "rain")]

\* add_watermark_to_clip of utils.watermark, per frame.
WatermarkStep(frame) == [frame EXCEPT !.ops = Append(@, "watermark")]

combined_transform_mut(style, frame) == transform_func(style, RainStep(frame))

combined_transform(style, frame) == RainStep(transform_func(style, frame))

fl_image(clip, fn) == [clip EXCEPT !.fl = Append(@, fn)]

ApplyFn(fn, style, frame) ==
  CASE fn = "combined_transform" -> combined_transform(style, frame)
    [] fn = "transform_func" -> transform_func(style, frame)
    [] fn = "add_watermark_to_clip" -> WatermarkStep(frame)

RECURSIVE ApplyAll(_, _, _)
ApplyAll(fl, style, frame) ==
  IF fl = <<>> THEN frame
  ELSE ApplyAll(Tail(fl), style, ApplyFn(Head(fl), style, frame))

\* write_videofile: every source frame, in order, through the clip's filters.
write_videofile(clip) ==
  [i \in 1..clip.n |-> ApplyAll(clip.fl, clip.style, SourceFrame(i))]

\* Lines 28-40: the widgets, the guard, and the upload saved to a
\* NamedTemporaryFile(delete=False).
Run_F1 ==
  \E uploaded_file \in BOOLEAN, generate \in BOOLEAN, rain \in BOOLEAN, wm \in BOOLEAN :
    /\ Idle
    /\ jobId < MaxJobs
    /\ jobId' = jobId + 1
    /\ feature' = "f1"
    /\ nfiles' = IF uploaded_file THEN 1 ELSE 0
    /\ dur' = NoDur
    /\ error' = "none"
    /\ failedAt' = "none"
    /\ openClips' = {}
    /\ add_rain' = rain
    /\ add_watermark' = wm
    /\ styled_clip' = NoClip
    /\ output' = <<>>
    /\ shown' = FALSE
    /\ idx' = 0
    /\ UNCHANGED <<session, sbsVars, seqVars, rainVars>>
    /\ IF uploaded_file /\ generate
         THEN /\ started' = TRUE
              /\ tmpFiles' = {File("temp_input.mp4", 0)}
              /\ pc' = "f1_open"
         ELSE /\ started' = FALSE
              /\ tmpFiles' = {}
              /\ pc' = "ended"

F1_Transform ==
  /\ pc = "f1_open"
  /\ \/ \E n \in 1..MaxFrames, style \in Styles :
          /\ Step("f1_wm", {})
          /\ openClips' = {Handle("clip", 0)}
          /\ styled_clip' =
               fl_image([n |-> n, style |-> style, fl |-> <<>>],
                        IF add_rain THEN "combined_transform" ELSE "transform_func")
          /\ UNCHANGED <<session, sbsVars, seqVars, add_rain, add_watermark, output,
                         shown, idx, rainVars>>
     \/ Raise("DecodeError")

F1_Watermark ==
  /\ pc = "f1_wm"
  /\ \/ /\ Step("f1_write", {})
        /\ styled_clip' =
             IF add_watermark THEN fl_image(styled_clip, "add_watermark_to_clip")
             ELSE styled_clip
        /\ UNCHANGED <<openClips, session, sbsVars, seqVars, add_rain, add_watermark,
                       output, shown, idx, rainVars>>
     \/ /\ add_watermark
        /\ Raise("WatermarkError")

\* Lines 56-60: the output file exists from the moment it is named.
F1_Write ==
  /\ pc = "f1_write"
  /\ \/ /\ Step("ended", {File("output.mp4", 0)})
        /\ output' = write_videofile(styled_clip)
        /\ shown' = TRUE
        /\ UNCHANGED <<openClips, session, sbsVars, seqVars, add_rain, add_watermark,
                       styled_clip, idx, rainVars>>
     \/ RaiseWith("EncodeError", {File("output.mp4", 0)}, {})

\* ------------------------------------------ feature 4: thumbnails
Run_F4 ==
  \E n \in 0..MaxFiles, button \in BOOLEAN :
    Enter("f4", n, button, "f4_loop", {NoDur})

\* One pass of the loop: save the upload, open the clip, read one frame,
\* close the clip.
F4_Thumb ==
  /\ pc = "f4_loop"
  /\ idx < 3
  /\ \/ /\ Step("f4_loop", {File("thumb.mp4", idx)})
        /\ idx' = idx + 1
        /\ UNCHANGED <<openClips, session, sbsVars, seqVars, f1Vars, rainVars>>
     \/ Raise("DecodeError")                                   \* VideoFileClip raises
     \/ RaiseWith("DecodeError", {}, {Handle("clip", idx)})    \* get_frame raises

F4_Combine ==
  /\ pc = "f4_loop"
  /\ idx = 3
  /\ pc' = "ended"
  /\ tmpFiles' = {}
  /\ UNCHANGED <<feature, jobId, started, error, failedAt, nfiles, dur, openClips,
                 session, sbsVars, seqVars, f1Vars, idx, rainVars>>

\* --------------------------------------------------- add_rain_effect
Black == <<0, 0, 0>>
Pixels == (0..(RainW - 1)) \X (0..(RainH - 1))
RainFrames == [Pixels -> {Black, <<240, 240, 240>>}]
Drops == [x : 0..(RainW - 1), y : 0..(RainH - 1), length : 10..19]

\* cv2.line(rain_layer, (x, y), (x, y + length), color, 1), clipped to the layer.
OnLine(p, drop) == p[1] = drop.x /\ drop.y <= p[2] /\ p[2] <= drop.y + drop.length

rain_layer(drops) ==
  [p \in Pixels |->
     IF \E k \in DOMAIN drops : OnLine(p, drops[k]) THEN <<200, 200, 255>> ELSE Black]

Saturate(v) == IF v > 255 THEN 255 ELSE IF v < 0 THEN 0 ELSE v

\* cv2.addWeighted(frame, 1.0, rain_layer, 0.15, 0), per channel, rounded.
addWeighted(frame, layer) ==
  [p \in Pixels |->
     [c \in 1..3 |-> Saturate(frame[p][c] + (layer[p][c] * 15 + 50) \div 100)]]

\* `drops` are the values np.random.randint returns during the call.
add_rain_effect(frame, drops) == addWeighted(frame, rain_layer(drops))

CallRain ==
  /\ Len(rain_out) < 2
  /\ \E drops \in [1..NumDrops -> Drops] :
       rain_out' = Append(rain_out, add_rain_effect(rain_frame, drops))
  /\ UNCHANGED <<ctlVars, resVars, session, sbsVars, seqVars, f1Vars, idx, rain_frame>>

JobInit ==
  /\ pc = "idle"
  /\ feature = "none"
  /\ jobId = 0
  /\ started = FALSE
  /\ error = "none"
  /\ failedAt = "none"
  /\ nfiles = 0
  /\ dur = NoDur
  /\ tmpFiles = {}
  /\ openClips = {}
  /\ session = InitSession
  /\ min_duration = None
  /\ raw_clips = <<>>
  /\ styled_clips = <<>>
  /\ raw_combined = NoComposite
  /\ styled_combined = NoComposite
  /\ raw_sequence = NoSequence
  /\ styled_sequence = NoSequence
  /\ add_rain = FALSE
  /\ add_watermark = FALSE
  /\ styled_clip = NoClip
  /\ output = <<>>
  /\ shown = FALSE
  /\ idx = 0

Init ==
  /\ JobInit
  /\ rain_frame = <<>>
  /\ rain_out = <<>>

InitRain ==
  /\ JobInit
  /\ rain_frame \in RainFrames
  /\ rain_out = <<>>

NextRain == CallRain

Next ==
  \/ Run_F2
  \/ EndRerun
  \/ F2_SaveUploads
  \/ F2_LoadClips
  \/ F2_WriteRaw
  \/ F2_WriteStyled
  \/ F2_Watermark
  \/ F2_SaveRaw
  \/ F2_SaveFinal
  \/ Run_F3
  \/ F3_SaveUploads
  \/ F3_LoadClips
  \/ F3_BuildTimeline
  \/ F3_WriteRaw
  \/ F3_WriteStyled
  \/ F3_Watermark
  \/ F3_SaveRaw
  \/ F3_SaveFinal
  \/ Run_F1
  \/ F1_Transform
  \/ F1_Watermark
  \/ F1_Write
  \/ Run_F4
  \/ F4_Thumb
  \/ F4_Combine

Spec == Init /\ [][Next]_vars

SpecRain == InitRain /\ [][NextRain]_vars

\* ------------------------------------------------------------ properties
Ended == pc = "ended" /\ started
Failed == Ended /\ error # "none"
Slots(f) ==
  IF f = "f2" THEN {"sbs_raw_output", "sbs_final_output"}
  ELSE {"seq_raw_output", "seq_final_output"}
FinalSlot(f) == IF f = "f2" THEN "sbs_final_output" ELSE "seq_final_output"
MinOf(S) == CHOOSE m \in S : \A x \in S : m <= x

C2_WatermarkFallback ==
  (Failed /\ error = "WatermarkError") =>
    IF feature = "f1" THEN shown
    ELSE session[FinalSlot(feature)] = [job |-> jobId, kind |-> "styled"]

\* C3: once a job has ended, normally or by an error, no clip it opened is
\* still open and no temporary file it created still exists.
C3_ReleasedOnExit == Ended => (openClips = {} /\ tmpFiles = {})

\* C4: a composition request with a number of tracks other than 3 ends with an
\* InvalidTrackError, raised before the job body did anything.
C4_WrongCountRejected ==
  (pc = "ended" /\ feature \in {"f2", "f3"} /\ nfiles # 3) =>
    (error = "InvalidTrackError" /\ ~started)

SeqShape(seq) ==
  /\ Len(seq.segs) = 4
  /\ seq.segs[1].dur = intro_duration
  /\ \A j \in Idx : ~seq.segs[1].cells[j].frozen /\ seq.segs[1].cells[j].track = j
  /\ \A i \in Idx :
       /\ seq.segs[i + 2].dur = dur[i]
       /\ {j \in Idx : ~seq.segs[i + 2].cells[j].frozen} = {i}
       /\ seq.segs[i + 2].cells[i].track = i
  /\ seq.dur = intro_duration + dur[0] + dur[1] + dur[2]

\* C6: in intro + sequential mode the timeline is the intro followed by three
\* segments in track order, segment i lasts d_i, and the whole lasts
\* intro duration + d0 + d1 + d2.
C6_SeqDuration ==
  (feature = "f3" /\ raw_sequence.dur # None) =>
    (SeqShape(raw_sequence) /\ SeqShape(styled_sequence))

C6_Witness ==
  /\ feature = "f3"
  /\ dur = [j \in Idx |-> IF j = 0 THEN 4 ELSE IF j = 1 THEN 7 ELSE 2]
  /\ raw_sequence.dur = intro_duration + 13
  /\ styled_sequence.dur = intro_duration + 13
  /\ pc = "ended"

CellsShape(clips) ==
  /\ \A i \in Idx, j \in Idx :
       LET c == clips[i + 2].cells[j] IN
         /\ c.track = j
         /\ (j = i) => (~c.frozen /\ c.opacity = opaque)
         /\ (j # i) => (c.frozen /\ c.from = c.to /\ c.opacity = faded)
  /\ \A s \in 1..4 :
       /\ clips[s].size = clips[1].size
       /\ \A j \in Idx : clips[s].pos[j] = clips[1].pos[j] /\ clips[s].cells[j].pos = clips[s].pos[j]
  /\ \A j \in Idx, k \in Idx : (j # k) => clips[1].pos[j] # clips[1].pos[k]

\* C7: during segment i exactly cell i is live at full opacity, every other
\* cell j is one frozen frame of track j at reduced opacity, and the canvas
\* size and every cell's position are the same in the intro and the segments.
C7_OneLiveCell ==
  (feature = "f3" /\ raw_sequence.dur # None) =>
    (CellsShape(raw_clips) /\ CellsShape(styled_clips))

C7_Witness ==
  /\ feature = "f3"
  /\ raw_sequence.dur # None
  /\ raw_clips[3].cells[1].frozen = FALSE
  /\ raw_clips[3].cells[0].frozen
  /\ raw_clips[3].cells[2].opacity = faded
  /\ dur[0] # dur[1]

ExpectedOps ==
  <<styled_clip.style>>
    \o (IF add_rain THEN <<"rain">> ELSE <<>>)
    \o (IF add_watermark THEN <<"watermark">> ELSE <<>>)

\* C8: every output frame i is source frame i with the style applied first,
\* the rain second when it is enabled, and the watermark, when enabled, last.
C8_StyleThenOverlay ==
  (feature = "f1" /\ shown) =>
    /\ Len(output) = styled_clip.n
    /\ \A i \in 1..Len(output) : output[i].src = i /\ output[i].ops = ExpectedOps

C8_Witness ==
  /\ feature = "f1"
  /\ shown
  /\ add_rain
  /\ add_watermark
  /\ Len(output) = MaxFrames
  /\ output[MaxFrames].ops = <<"Shinkai", "rain", "watermark">>

\* C9: two calls of add_rain_effect on the same frame return the same frame.
C9_RainIsPure == (Len(rain_out) = 2) => (rain_out[1] = rain_out[2])

SamplesInside(clips) ==
  \A s \in 1..4, j \in Idx : ~OutOfRange(clips[s].cells[j])

\* C10: in intro + sequential mode every time at which a track is sampled,
\* the intro window and the frozen-frame instant included, lies inside that
\* track's own duration.
C10_SamplesInsideTrack ==
  (feature = "f3" /\ raw_sequence.dur # None) =>
    (SamplesInside(raw_clips) /\ SamplesInside(styled_clips))
====
